---- MODULE Spec2Model ----
\* Model of alf/environments/suite_safety_gym.py: the CompleteEnvInfo and
\* VectorReward gym wrappers and the load() function that chains them and
\* computes the episode step limit handed to suite_gym.wrap_env.
\*
\* Numbers.  A python float / np.float64 value is modelled by an integer (a
\* count of a fixed binary quantum); np.float32 keeps MantissaBits significant
\* bits, so Float32 rounds an integer to that many significant bits (nearest,
\* ties to even).  The exponent range is not modelled.
\* Optional values (python None) are modelled by sets: {} is None, {v} is v.
EXTENDS Integers, Sequences, FiniteSets

VARIABLES
    entry,                  \* how the wrapper chain is built: "load" or "VectorReward"
    environment_name,       \* load(environment_name, ...)
    num_steps,              \* env.num_steps of the simulator built by gym.make
    arg_max_episode_steps,  \* load(max_episode_steps=...): {} is None
    unconstrained,          \* load(unconstrained=...)
    pc,                     \* "start" before construction, "ready" after
    wrappers,               \* the gym wrappers around the simulator, innermost first
    _env_info_keys,         \* CompleteEnvInfo._env_info_keys (a list)
    _default_env_info,      \* CompleteEnvInfo._default_env_info (a dict)
    reward_space,           \* VectorReward.reward_space shape: {} when absent
    max_episode_steps,      \* the limit passed to suite_gym.wrap_env: {} before load
    raw,                    \* what the simulator's step returned last
    ret,                    \* what the outermost gym wrapper's step returned last
    steps,                  \* the simulator's own step counter of the episode
    timeout_done,           \* the simulator output done=True for its time limit
    _num_steps,             \* the framework time limit's step counter
    step_type               \* the framework's last time step: "NONE","FIRST","MID","LAST"

vars == <<entry, environment_name, num_steps, arg_max_episode_steps, unconstrained,
          pc, wrappers, _env_info_keys, _default_env_info, reward_space,
          max_episode_steps, raw, ret, steps, timeout_done, _num_steps, step_type>>

------------------------------------------------------------------------------
\* Bounds of the model.

\* load() is checked for intrinsic step counts 1..MaxN and LargeN ...
MaxN == 6
\* ... and caller limits None, -1..MaxL, LargeN \div 2 and 2 * LargeN.
MaxL == 8
\* A benchmark-sized intrinsic step count.
LargeN == 1000
\* Episodes are run for intrinsic step counts 1..MaxEpisodeN ...
MaxEpisodeN == 3
\* ... and caller limits None, 0..MaxEpisodeL.
MaxEpisodeL == 4
\* The simulator reports an aggregate cost in 0..MaxCost.
MaxCost == 1
\* The simulator's scalar reward is in -MaxSmallReward..MaxSmallReward, or one
\* of the values that need more than MantissaBits bits.
MaxSmallReward == 1

------------------------------------------------------------------------------
\* Program constants.

\* VectorReward.REWARD_DIMENSION
REWARD_DIMENSION == 3
\* significand width of np.float32 (dtype of the reward vector)
MantissaBits == 24

None == {}
Some(v) == {v}
Get(o) == CHOOSE v \in o : TRUE
Opt(V) == {None} \cup {Some(v) : v \in V}

------------------------------------------------------------------------------
\* Environment names, as sequences of characters.

Prefix == <<"S","a","f","e","x","p","-">>
PointGoal0 == Prefix \o <<"P","o","i","n","t","G","o","a","l","0","-","v","0">>
CarButton1 == Prefix \o <<"C","a","r","B","u","t","t","o","n","1","-","v","0">>
DoggoPush2 == Prefix \o <<"D","o","g","g","o","P","u","s","h","2","-","v","0">>
EnvNames == {PointGoal0, CarButton1, DoggoPush2}

\* The constraint level of a registered benchmark task: the digit before "-v0".
SimLevel(env_name) == env_name[Len(env_name) - 3]

CoreKeys == <<"cost_exception", "goal_met", "cost">>
ConstraintKeys == <<"cost_vases_contact", "cost_pillars", "cost_buttons",
                    "cost_gremlins", "cost_vases_displace", "cost_vases_velocity",
                    "cost_hazards">>

Range(s) == {s[i] : i \in 1..Len(s)}

------------------------------------------------------------------------------
\* np.float32 conversion.

RECURSIVE BitLength(_)
BitLength(a) == IF a = 0 THEN 0 ELSE 1 + BitLength(a \div 2)

RECURSIVE Pow2(_)
Pow2(n) == IF n = 0 THEN 1 ELSE 2 * Pow2(n - 1)

Abs(v) == IF v < 0 THEN -v ELSE v

RoundMagnitude(a) ==
    IF BitLength(a) <= MantissaBits THEN a
    ELSE LET unit == Pow2(BitLength(a) - MantissaBits)
             q    == a \div unit
             rem  == a % unit
             up   == (2 * rem > unit) \/ (2 * rem = unit /\ q % 2 = 1)
         IN (IF up THEN q + 1 ELSE q) * unit

Float32(v) == IF v < 0 THEN -RoundMagnitude(-v) ELSE RoundMagnitude(v)

\* python float(bool)
FloatOfBool(b) == IF b THEN 1 ELSE 0

------------------------------------------------------------------------------
\* CompleteEnvInfo.

IsLevel0Env(env_name) ==
    \E i \in 1..(Len(env_name) - 2) : SubSeq(env_name, i, i + 2) = <<"0", "-", "v">>

EnvInfoKeysNoHazards(env_name) ==
    CoreKeys \o (IF ~IsLevel0Env(env_name)
                 THEN SubSeq(ConstraintKeys, 1, Len(ConstraintKeys) - 1)
                 ELSE <<>>)

EnvInfoKeys(env_name) ==
    CoreKeys \o (IF ~IsLevel0Env(env_name) THEN ConstraintKeys ELSE <<>>)

GenerateDefaultEnvInfo(keys) ==
    [key \in Range(keys) |-> IF key = "goal_met" THEN FALSE ELSE 0]

\* dict.update keeping the old value of a key that is already present
DictSetDefault(d, info) ==
    [k \in DOMAIN d \cup DOMAIN info |-> IF k \in DOMAIN d THEN d[k] ELSE info[k]]

\* dict.update
DictUpdate(d, info) ==
    [k \in DOMAIN d \cup DOMAIN info |-> IF k \in DOMAIN info THEN info[k] ELSE d[k]]

\* step() updating self._default_env_info itself instead of a copy of it
CompleteEnvInfoStepNoCopy(default, r) ==
    [ret     |-> [r EXCEPT !.info = DictUpdate(default, r.info)],
     default |-> DictUpdate(default, r.info)]

\* CompleteEnvInfo.step: the returned tuple and self._default_env_info after it
CompleteEnvInfoStep(default, r) ==
    LET env_info == DictUpdate(default, r.info)
    IN [ret |-> [r EXCEPT !.info = env_info], default |-> default]

------------------------------------------------------------------------------
\* VectorReward.

KeyError == [kind |-> "KeyError"]

\* step() reading info with info.get(key, default) instead of info[key]
VectorRewardStepWithDefaults(r) ==
    LET cost     == IF "cost" \in DOMAIN r.info THEN r.info["cost"] ELSE 0
        goal_met == IF "goal_met" \in DOMAIN r.info THEN r.info["goal_met"] ELSE FALSE
    IN [r EXCEPT !.reward = <<Float32(r.reward), Float32(-cost),
                              Float32(FloatOfBool(goal_met))>>,
                 !.rtype = "float32[3]"]

\* step() building the vector as [reward, cost, success] (cost not negated)
VectorRewardStepCostNotNegated(r) ==
    IF "cost" \notin DOMAIN r.info \/ "goal_met" \notin DOMAIN r.info THEN KeyError
    ELSE [r EXCEPT !.reward = <<Float32(r.reward), Float32(r.info["cost"]),
                                Float32(FloatOfBool(r.info["goal_met"]))>>,
                   !.rtype = "float32[3]"]

VectorRewardStep(r) ==
    IF "cost" \notin DOMAIN r.info \/ "goal_met" \notin DOMAIN r.info THEN KeyError
    ELSE LET cost_reward    == -r.info["cost"]
             success_reward == FloatOfBool(r.info["goal_met"])
         IN [r EXCEPT !.reward = <<Float32(r.reward), Float32(cost_reward),
                                   Float32(success_reward)>>,
                      !.rtype = "float32[3]"]

\* The step of a chain of gym wrappers (innermost first) around the simulator:
\* each wrapper's step calls self.env.step and works on what it returns.
RECURSIVE ChainStep(_, _, _)
ChainStep(chain, default, r) ==
    IF chain = <<>> THEN [ret |-> r, default |-> default]
    ELSE LET inner == ChainStep(SubSeq(chain, 1, Len(chain) - 1), default, r)
             w     == chain[Len(chain)]
         IN IF inner.ret.kind = "KeyError" THEN inner
            ELSE IF w = "CompleteEnvInfo"
                 THEN CompleteEnvInfoStep(inner.default, inner.ret)
                 ELSE [ret |-> VectorRewardStep(inner.ret), default |-> inner.default]

------------------------------------------------------------------------------
\* load.

Min(a, b) == IF a <= b THEN a ELSE b

\* without the -1 on top of the environment's own limit
StepLimitNoDecrement(N, L) ==
    Min(N, IF L = None \/ Get(L) = 0 THEN N ELSE Get(L))

\* treating only None, not 0, as "no caller limit"
StepLimitZeroIsALimit(N, L) ==
    Min(N - 1, IF L = None THEN N - 1 ELSE Get(L))

\* always the environment's own limit minus one
StepLimitIgnoringCaller(N, L) == N - 1

StepLimit(N, L) ==
    LET limit == IF L = None \/ Get(L) = 0 THEN N - 1 ELSE Get(L)
    IN Min(N - 1, limit)

LoadWrappersInverted(is_unconstrained) ==
    <<"CompleteEnvInfo">> \o (IF is_unconstrained THEN <<"VectorReward">> ELSE <<>>)

LoadWrappersVectorInside(is_unconstrained) ==
    (IF ~is_unconstrained THEN <<"VectorReward">> ELSE <<>>) \o <<"CompleteEnvInfo">>

LoadWrappers(is_unconstrained) ==
    <<"CompleteEnvInfo">> \o (IF ~is_unconstrained THEN <<"VectorReward">> ELSE <<>>)

RewardSpaceOf(chain) ==
    IF "VectorReward" \in Range(chain) THEN Some(<<REWARD_DIMENSION>>) ELSE None

------------------------------------------------------------------------------
\* The simulator behind gym.make.

Rewards ==
    (-MaxSmallReward..MaxSmallReward) \cup {Pow2(MantissaBits) + 1}

CostValues == 0..MaxCost

SimKeys(env_name) ==
    Range(CoreKeys) \cup (IF SimLevel(env_name) = "0" THEN {} ELSE Range(ConstraintKeys))

\* the constraint-cost keys a step may report together
ConstraintReports(env_name) ==
    IF SimLevel(env_name) = "0" THEN {{}}
    ELSE {{}, {"cost_hazards"}, Range(ConstraintKeys)}

InfoOf(ce, gm, c, cs) ==
    [k \in (IF ce = None THEN {} ELSE {"cost_exception"})
           \cup (IF gm = None THEN {} ELSE {"goal_met"})
           \cup (IF c = None THEN {} ELSE {"cost"})
           \cup cs
       |-> CASE k = "cost_exception" -> Get(ce)
             [] k = "goal_met" -> Get(gm)
             [] k = "cost" -> Get(c)
             [] OTHER -> 1]

\* a key is in info only when its event occurred at the step
SimInfos(env_name) ==
    {InfoOf(ce, gm, c, cs) : ce \in Opt({1}), gm \in Opt(BOOLEAN),
                             c \in Opt(CostValues), cs \in ConstraintReports(env_name)}

EpisodeInfos(env_name) ==
    {InfoOf(None, None, None, {}),
     InfoOf(None, Some(TRUE), Some(1), SimKeys(env_name) \ Range(CoreKeys))}

SimReturn(reward, done, info) ==
    [kind |-> "return", reward |-> reward, rtype |-> "scalar", done |-> done,
     info |-> info]

NoStep == [kind |-> "none"]

\* the simulator outputs done=True when its step counter reaches env.num_steps
SimTimeLimitReached(n, N) == n >= N

\* the framework's time limit: the episode's last step is the one at which the
\* step limit is reached (or the environment itself is done)
TimeLimitStepType(done, n, limit) ==
    IF done \/ n >= limit THEN "LAST" ELSE "MID"

------------------------------------------------------------------------------
\* Initial states.

InitCommon ==
    /\ pc = "start"
    /\ wrappers = <<>>
    /\ _env_info_keys = <<>>
    /\ _default_env_info = <<>>
    /\ reward_space = None
    /\ max_episode_steps = None
    /\ raw = NoStep
    /\ ret = NoStep
    /\ steps = 0
    /\ timeout_done = FALSE
    /\ _num_steps = 0
    /\ step_type = "NONE"

\* Stepping: load with its default max_episode_steps, or VectorReward put
\* directly around the simulator.
Init ==
    /\ InitCommon
    /\ environment_name \in EnvNames
    /\ num_steps = LargeN
    /\ arg_max_episode_steps = None
    /\ \/ entry = "load" /\ unconstrained \in BOOLEAN
       \/ entry = "VectorReward" /\ unconstrained = FALSE

\* load alone, over its arguments.
InitLoad ==
    /\ InitCommon
    /\ entry = "load"
    /\ environment_name \in EnvNames
    /\ num_steps \in (1..MaxN) \cup {LargeN}
    /\ arg_max_episode_steps \in Opt(((-1)..MaxL) \cup {LargeN \div 2, 2 * LargeN})
    /\ unconstrained \in BOOLEAN

\* Episodes of a loaded environment under the framework's time limit.
InitEpisode ==
    /\ InitCommon
    /\ entry = "load"
    /\ environment_name \in EnvNames
    /\ num_steps \in 1..MaxEpisodeN
    /\ arg_max_episode_steps \in Opt(0..MaxEpisodeL)
    /\ unconstrained \in BOOLEAN

------------------------------------------------------------------------------
\* Actions.

Load ==
    /\ pc = "start"
    /\ entry = "load"
    /\ wrappers' = LoadWrappers(unconstrained)
    /\ _env_info_keys' = EnvInfoKeys(environment_name)
    /\ _default_env_info' = GenerateDefaultEnvInfo(_env_info_keys')
    /\ reward_space' = RewardSpaceOf(wrappers')
    /\ max_episode_steps' = Some(StepLimit(num_steps, arg_max_episode_steps))
    /\ pc' = "ready"
    /\ UNCHANGED <<entry, environment_name, num_steps, arg_max_episode_steps,
                   unconstrained, raw, ret, steps, timeout_done, _num_steps, step_type>>

\* VectorReward(gym.make(environment_name)), without CompleteEnvInfo
MakeVectorReward ==
    /\ pc = "start"
    /\ entry = "VectorReward"
    /\ wrappers' = <<"VectorReward">>
    /\ reward_space' = RewardSpaceOf(wrappers')
    /\ pc' = "ready"
    /\ UNCHANGED <<entry, environment_name, num_steps, arg_max_episode_steps,
                   unconstrained, _env_info_keys, _default_env_info,
                   max_episode_steps, raw, ret, steps, timeout_done, _num_steps,
                   step_type>>

\* one step() call on the outermost gym wrapper
Step ==
    /\ pc = "ready"
    /\ \E reward \in Rewards, done \in BOOLEAN, info \in SimInfos(environment_name) :
          LET r   == SimReturn(reward, done, info)
              res == ChainStep(wrappers, _default_env_info, r)
          IN /\ raw' = r
             /\ ret' = res.ret
             /\ _default_env_info' = res.default
    /\ UNCHANGED <<entry, environment_name, num_steps, arg_max_episode_steps,
                   unconstrained, pc, wrappers, _env_info_keys, reward_space,
                   max_episode_steps, steps, timeout_done, _num_steps, step_type>>

\* reset() through the framework: a new episode
EpisodeReset ==
    /\ pc = "ready"
    /\ step_type \in {"NONE", "LAST"}
    /\ steps' = 0
    /\ timeout_done' = FALSE
    /\ _num_steps' = 0
    /\ step_type' = "FIRST"
    /\ UNCHANGED <<entry, environment_name, num_steps, arg_max_episode_steps,
                   unconstrained, pc, wrappers, _env_info_keys, _default_env_info,
                   reward_space, max_episode_steps, raw, ret>>

\* one step() through the framework's time limit, the gym wrappers and the simulator
EpisodeStep ==
    /\ pc = "ready"
    /\ step_type \in {"FIRST", "MID"}
    /\ \E reward \in {0}, early \in BOOLEAN, info \in EpisodeInfos(environment_name) :
          LET timeout == SimTimeLimitReached(steps + 1, num_steps)
              r       == SimReturn(reward, early \/ timeout, info)
              res     == ChainStep(wrappers, _default_env_info, r)
          IN /\ steps' = steps + 1
             /\ timeout_done' = timeout
             /\ raw' = r
             /\ ret' = res.ret
             /\ _default_env_info' = res.default
             /\ _num_steps' = _num_steps + 1
             /\ step_type' = TimeLimitStepType(res.ret.done, _num_steps',
                                               Get(max_episode_steps))
    /\ UNCHANGED <<entry, environment_name, num_steps, arg_max_episode_steps,
                   unconstrained, pc, wrappers, _env_info_keys, reward_space,
                   max_episode_steps>>

Next == Load \/ MakeVectorReward \/ Step
Spec == Init /\ [][Next]_vars

NextLoad == Load
SpecLoad == InitLoad /\ [][NextLoad]_vars

NextEpisode == Load \/ EpisodeReset \/ EpisodeStep
SpecEpisode == InitEpisode /\ [][NextEpisode]_vars

------------------------------------------------------------------------------
\* Properties.

Level0KeySet == {"cost_exception", "goal_met", "cost"}
FullKeySet ==
    Level0KeySet \cup {"cost_vases_contact", "cost_pillars", "cost_buttons",
                       "cost_gremlins", "cost_vases_displace", "cost_vases_velocity",
                       "cost_hazards"}
ExpectedKeySet == IF IsLevel0Env(environment_name) THEN Level0KeySet ELSE FullKeySet
DefaultOf(key) == IF key = "goal_met" THEN FALSE ELSE 0

\* a step of an environment built by load has returned
LoadedStepReturned == entry = "load" /\ ret.kind = "return"

\* x is a float32 value, and no float32 value is nearer to v than x is
IsFloat32(x) ==
    \E e \in 0..BitLength(Abs(x)) :
        Abs(x) % Pow2(e) = 0 /\ Abs(x) \div Pow2(e) < Pow2(MantissaBits)
Ulp(v) == IF BitLength(Abs(v)) <= MantissaBits THEN 0
          ELSE Pow2(BitLength(Abs(v)) - MantissaBits)
IsFloat32Of(x, v) == IsFloat32(x) /\ 2 * Abs(x - v) <= Ulp(v)

BigReward == Pow2(MantissaBits) + 1

\* C1: the record CompleteEnvInfo.step returns has exactly the key set of the
\* name's level at every step: 3 keys when the name contains "0-v", 10 keys
\* otherwise, whichever of them the simulator reported.
C1_ExactKeySet ==
    LoadedStepReturned =>
        /\ DOMAIN ret.info = ExpectedKeySet
        /\ Cardinality(DOMAIN ret.info) = IF IsLevel0Env(environment_name) THEN 3 ELSE 10

C1_Witness ==
    /\ LoadedStepReturned
    /\ ~IsLevel0Env(environment_name)
    /\ DOMAIN raw.info = {"cost_hazards"}
    /\ Cardinality(DOMAIN ret.info) = 10

\* C2: at any step, every expected key the simulator omits is in the returned
\* record with its default (0 for a cost, FALSE for goal_met), the step does
\* not raise, and the stored default record is never changed by a step.
C2_OmittedKeysDefault ==
    (entry = "load" /\ pc = "ready") =>
        /\ _default_env_info = [key \in ExpectedKeySet |-> DefaultOf(key)]
        /\ ret.kind # "KeyError"
        /\ ret.kind = "return" =>
              \A key \in ExpectedKeySet \ DOMAIN raw.info :
                  /\ key \in DOMAIN ret.info
                  /\ IF key = "goal_met" THEN ret.info[key] = FALSE
                                         ELSE ret.info[key] = 0

C2_Witness ==
    /\ LoadedStepReturned
    /\ DOMAIN raw.info = {"cost_exception"}
    /\ ret.info["cost"] = 0
    /\ ret.info["goal_met"] = FALSE

\* C3: every key the simulator reports is in the returned record with the
\* reported value; when it reports all expected keys the returned record is
\* the reported one.
C3_ReportedValuesKept ==
    LoadedStepReturned =>
        /\ \A key \in DOMAIN raw.info :
              key \in DOMAIN ret.info /\ ret.info[key] = raw.info[key]
        /\ ExpectedKeySet \subseteq DOMAIN raw.info => ret.info = raw.info

C3_Witness ==
    /\ LoadedStepReturned
    /\ DOMAIN raw.info = FullKeySet
    /\ raw.info["goal_met"] = TRUE
    /\ raw.info["cost"] = 1
    /\ ret.info = raw.info

\* a step of VectorReward has returned a reward vector
VectorStepReturned ==
    /\ pc = "ready"
    /\ wrappers # <<>>
    /\ wrappers[Len(wrappers)] = "VectorReward"
    /\ ret.kind = "return"

\* C4 as stated: the reward VectorReward.step returns is (r, -c, 1 if g else 0),
\* component 0 being the unchanged scalar reward.
C4_VectorIsExact ==
    VectorStepReturned =>
        ret.reward = <<raw.reward, -ret.info["cost"], FloatOfBool(ret.info["goal_met"])>>

\* C4, amended: the reward is the float32 vector of (r, -c, 1 if g else 0):
\* component 0 is r rounded to float32 (r itself when r is a float32 value),
\* component 1 the negated cost, component 2 the success indicator.
C4_VectorIsFloat32Of ==
    VectorStepReturned =>
        /\ ret.rtype = "float32[3]"
        /\ Len(ret.reward) = REWARD_DIMENSION
        /\ IsFloat32Of(ret.reward[1], raw.reward)
        /\ IsFloat32Of(ret.reward[2], -ret.info["cost"])
        /\ ret.reward[3] = (IF ret.info["goal_met"] THEN 1 ELSE 0)
        /\ ret.done = raw.done

C4_Witness ==
    /\ VectorStepReturned
    /\ raw.reward = BigReward
    /\ ret.info["cost"] = 1
    /\ ret.info["goal_met"] = TRUE
    /\ ret.reward = <<BigReward - 1, -1, 1>>

\* C5: the step limit load passes on is N-1 when the caller's limit is None or
\* 0, and min(N-1, L) otherwise.
C5_StepLimit ==
    pc = "ready" =>
        LET N == num_steps
            L == arg_max_episode_steps
            m == Get(max_episode_steps)
        IN /\ max_episode_steps # None
           /\ (L = None \/ L = Some(0)) => m = N - 1
           /\ (L # None /\ L # Some(0)) =>
                 m <= N - 1 /\ m <= Get(L) /\ (m = N - 1 \/ m = Get(L))
           /\ (N = 1000 /\ L = None) => m = 999
           /\ (N = 1000 /\ L = Some(500)) => m = 500
           /\ (N = 1000 /\ L = Some(2000)) => m = 999

C5_Witness ==
    /\ pc = "ready"
    /\ num_steps = 1000
    /\ arg_max_episode_steps = Some(2000)
    /\ max_episode_steps = Some(999)

\* C6 as stated: the final step limit is at most N-1 and at most the caller's
\* requested limit, for every N and every caller-supplied limit.
C6_BelowBoth ==
    pc = "ready" =>
        /\ Get(max_episode_steps) <= num_steps - 1
        /\ arg_max_episode_steps # None =>
              Get(max_episode_steps) <= Get(arg_max_episode_steps)

\* C6, amended: the final step limit is at most N-1, and at most the caller's
\* limit whenever the caller supplies a limit other than 0.
C6_BelowBothUnlessZero ==
    pc = "ready" =>
        /\ Get(max_episode_steps) <= num_steps - 1
        /\ (arg_max_episode_steps # None /\ arg_max_episode_steps # Some(0)) =>
              Get(max_episode_steps) <= Get(arg_max_episode_steps)

C6_Witness ==
    /\ pc = "ready"
    /\ num_steps = MaxN
    /\ arg_max_episode_steps = Some(2)
    /\ max_episode_steps = Some(2)

\* C7: with unconstrained set, VectorReward is not applied and every step's
\* reward is the simulator's scalar (no reward space of dimension 3); without
\* it VectorReward is applied and every step's reward is a 3-vector; in both
\* cases CompleteEnvInfo is applied.
C7_UnconstrainedStaysScalar ==
    (entry = "load" /\ pc = "ready") =>
        /\ "CompleteEnvInfo" \in Range(wrappers)
        /\ ret.kind = "return" => ExpectedKeySet \subseteq DOMAIN ret.info
        /\ unconstrained =>
              /\ "VectorReward" \notin Range(wrappers)
              /\ reward_space = None
              /\ ret.kind = "return" =>
                    ret.rtype = "scalar" /\ ret.reward = raw.reward
        /\ ~unconstrained =>
              /\ "VectorReward" \in Range(wrappers)
              /\ reward_space = Some(<<3>>)
              /\ ret.kind = "return" =>
                    ret.rtype = "float32[3]" /\ Len(ret.reward) = 3

C7_Witness ==
    /\ LoadedStepReturned
    /\ unconstrained
    /\ raw.reward = -1
    /\ ret.reward = -1
    /\ reward_space = None

\* C8: when the record VectorReward.step receives lacks "cost" or "goal_met",
\* the step fails with a KeyError: no reward vector, no default substituted.
C8_MissingKeyRaises ==
    (wrappers = <<"VectorReward">> /\ raw.kind = "return"
        /\ ("cost" \notin DOMAIN raw.info \/ "goal_met" \notin DOMAIN raw.info))
    => ret = KeyError

C8_Witness ==
    /\ wrappers = <<"VectorReward">>
    /\ raw.kind = "return"
    /\ DOMAIN raw.info = {"cost"}
    /\ ret.kind = "KeyError"

ConstrainedStepMade == entry = "load" /\ ~unconstrained /\ ret.kind # "none"

\* C10 as stated: with unconstrained=False, CompleteEnvInfo is inside
\* VectorReward, no step fails with a missing key, and when the simulator omits
\* both "cost" and "goal_met" the reward vector is (r, 0, 0).
C10_NeverMissingKey ==
    ConstrainedStepMade =>
        /\ wrappers = <<"CompleteEnvInfo", "VectorReward">>
        /\ ret.kind = "return"
        /\ ("cost" \notin DOMAIN raw.info /\ "goal_met" \notin DOMAIN raw.info) =>
              ret.reward = <<raw.reward, 0, 0>>

\* C10, amended: as stated, but the reward vector is (float32(r), 0, 0).
C10_NeverMissingKeyFloat32 ==
    ConstrainedStepMade =>
        /\ wrappers = <<"CompleteEnvInfo", "VectorReward">>
        /\ ret.kind = "return"
        /\ ("cost" \notin DOMAIN raw.info /\ "goal_met" \notin DOMAIN raw.info) =>
              /\ Len(ret.reward) = 3
              /\ IsFloat32Of(ret.reward[1], raw.reward)
              /\ ret.reward[2] = 0
              /\ ret.reward[3] = 0

C10_Witness ==
    /\ ConstrainedStepMade
    /\ DOMAIN raw.info = {}
    /\ raw.reward = 1
    /\ ret.kind = "return"
    /\ ret.reward = <<1, 0, 0>>

====
